---- MODULE Spec2Model ----
(***************************************************************************)
(* A model of spectre/factors/factor.py: the factor graph (CustomFactor    *)
(* and its catalogue of nodes), the pre-compute / compute / clean-up       *)
(* protocol with reference-counted caching and per-node device streams,    *)
(* and the pure transformations of the catalogue nodes.                    *)
(***************************************************************************)
EXTENDS Integers, Sequences, FiniteSets, TLC

\* ------------------------------------------------------------------ bounds

\* Number of root calls the engine makes in one phase of a pass.
MaxRoots == 2
\* The largest window length a node is given.
MaxWin == 3
\* The largest number a tensor holds (its values are 1..MaxVal and missing).
MaxVal == 2
\* The longest row of a tensor that is shifted or ranked.
MaxLen == 3

\* Python's None: an absent mask, cache, stream or result.
None == 0
\* An input that is not a BaseFactor (an opaque constant such as a key).
Const == 0
\* np.nan: a missing value.
NaN == -1
\* -np.inf: below every number.
NegInf == -1000

\* The nodes of the factor graph; node n takes its inputs and its mask among
\* the nodes below n, so every graph is a finite DAG.
Nodes == {1, 2, 3}
\* The node no other node can use.
Top == CHOOSE n \in Nodes : \A m \in Nodes : m <= n

\* ------------------------------------------------------------------- state

VARIABLES
    inputs,        \* inputs[n]: CustomFactor.inputs, a tuple of nodes and constants
    mask,          \* mask[n]: CustomFactor._mask (None or a node)
    groupby,       \* groupby[n]: BaseFactor.groupby
    win,           \* win[n]: CustomFactor.win
    heap,          \* the pass-scoped fields of every node, the engine and the device
    drv,           \* the caller (engine): which calls it has made in this pass,
                   \* how many roots it passes per phase, which pass this is
                   \* how the pass before ended, and whether this pass found
                   \* every node reset
    call,          \* the last call of a pure operation and its arguments
    ret            \* what that call returned

vars == <<inputs, mask, groupby, win, heap, drv, call, ret>>
graph == <<inputs, mask, groupby, win>>
pure == <<call, ret>>

\* ---------------------------------------------------------------- helpers

\* isinstance(up, BaseFactor)
IsFactor(up) == up # Const

RECURSIVE CountIn(_, _)
\* How often x occurs in the sequence s.
CountIn(s, x) ==
    IF s = <<>> THEN 0
    ELSE (IF Head(s) = x THEN 1 ELSE 0) + CountIn(Tail(s), x)

\* ------------------------------------------------------------ pre_compute_

\* BaseFactor.pre_compute_: keep the engine and register the groupby key.
BasePreCompute(h, n) ==
    [h EXCEPT !.engine[n] = TRUE,
              !.registered = Append(@, groupby[n])]

RECURSIVE pre_compute_(_, _)
RECURSIVE PreInputs(_, _, _)

\* The loop over self.inputs of pre_compute_, from position i on.
PreInputs(h, n, i) ==
    IF i > Len(inputs[n]) THEN h
    ELSE IF IsFactor(inputs[n][i])
         THEN PreInputs(pre_compute_(h, inputs[n][i]), n, i + 1)
         ELSE PreInputs(h, n, i + 1)

\* A pre_compute_ that forgets the mask.
PreComputeNoMask(h, n) ==
    LET h1 == BasePreCompute(h, n)
        h2 == [h1 EXCEPT !.cache[n] = None,
                         !.cache_stream[n] = None,
                         !.ref_count[n] = @ + 1,
                         !.log = Append(@, <<"pre", n, None>>)]
    IN IF h2.ref_count[n] > 1 THEN h2
       ELSE PreInputs([h2 EXCEPT !.log = Append(@, <<"down", n, None>>)], n, 1)

\* A pre_compute_ that goes down into its inputs and mask on every visit.
PreComputeEveryVisit(h, n) ==
    LET h1 == BasePreCompute(h, n)
        h2 == [h1 EXCEPT !.cache[n] = None,
                         !.cache_stream[n] = None,
                         !.ref_count[n] = @ + 1,
                         !.log = Append(@, <<"pre", n, None>>)]
        h3 == PreInputs([h2 EXCEPT !.log = Append(@, <<"down", n, None>>)], n, 1)
    IN IF mask[n] # None THEN pre_compute_(h3, mask[n]) ELSE h3

\* CustomFactor.pre_compute_
pre_compute_(h, n) ==
    LET h1 == BasePreCompute(h, n)
        h2 == [h1 EXCEPT !.cache[n] = None,
                         !.cache_stream[n] = None,
                         !.ref_count[n] = @ + 1,
                         !.log = Append(@, <<"pre", n, None>>)]
    IN IF h2.ref_count[n] > 1 THEN h2
       ELSE LET h3 == PreInputs([h2 EXCEPT !.log = Append(@, <<"down", n, None>>)], n, 1)
            IN IF mask[n] # None THEN pre_compute_(h3, mask[n]) ELSE h3

\* ---------------------------------------------------------------- streams

\* A device stream is an ordered queue of operations.  A "work" operation
\* writes the tensor `out` after reading the tensors `reads`; a "wait"
\* operation (wait_event) blocks the queue until stream `evs` has executed its
\* first `evp` operations (the event record_event put there).
Work(out, reads) == [kind |-> "work", out |-> out, reads |-> reads, evs |-> None, evp |-> 0]
Wait(s, p) == [kind |-> "wait", out |-> None, reads |-> {}, evs |-> s, evp |-> p]

\* Enqueue operation op on stream s.
Enqueue(h, s, op) == [h EXCEPT !.queue[s] = Append(@, op)]

\* stream.wait_event(producer.record_event())
WaitEvent(h, stream, producer) ==
    Enqueue(h, stream, Wait(producer, Len(h.queue[producer])))

\* torch.cuda.Stream(device=...): a fresh stream.
NewStream(h) == [h EXCEPT !.queue = Append(@, <<>>), !.done = Append(@, 0)]

\* Run tensor work on `stream`, or at once on the host when there is none.
Launch(h, stream, out, reads) ==
    IF stream # None THEN Enqueue(h, stream, Work(out, reads))
    ELSE [h EXCEPT !.written = @ \cup {out}]

\* ---------------------------------------------------------------- compute_

\* Whether _format_input hands the upstream tensor on as it is.
FormatIsIdentity(n, up) ==
    /\ groupby[up] = groupby[n]
    /\ mask[n] = None
    /\ ~(win[n] > 1)

\* The call of _format_input in compute_: a new tensor made from the
\* upstream's and the mask's, or the upstream tensor itself.
FormatCall(h, n, up, up_out, mask_out, stream) ==
    IF FormatIsIdentity(n, up)
    THEN [h EXCEPT !.out = up_out, !.log = Append(@, <<"fmt", n, up>>)]
    ELSE LET v == h.nval + 1
             h1 == [h EXCEPT !.nval = v, !.out = v,
                             !.log = Append(@, <<"fmt", n, up>>)]
         IN Launch(h1, stream, v, {up_out} \cup (IF mask_out # None THEN {mask_out} ELSE {}))

RECURSIVE compute_(_, _, _)
RECURSIVE ComputeInputs(_, _, _, _, _, _)

\* The loop over self.inputs of compute_, from position i on; args are the
\* tensors collected so far (constants pass as they are).
ComputeInputs(h, n, i, self_stream, mask_out, args) ==
    IF i > Len(inputs[n]) THEN [h EXCEPT !.args = args]
    ELSE IF IsFactor(inputs[n][i])
         THEN LET up == inputs[n][i]
                  h1 == compute_(h, up, self_stream)
              IN IF h1.err # "none" THEN h1
                 ELSE LET h2 == FormatCall(h1, n, up, h1.out, mask_out, self_stream)
                      IN ComputeInputs(h2, n, i + 1, self_stream, mask_out,
                                       Append(args, h2.out))
         ELSE ComputeInputs([h EXCEPT !.log = Append(@, <<"const", n, i>>)],
                            n, i + 1, self_stream, mask_out, Append(args, Const))

\* A cache hit that hands the tensor over without waiting for its stream.
CacheHitNoWait(h, n, down_stream) ==
    LET r == h.cache[n]
        h2 == [h EXCEPT !.out = r, !.log = Append(@, <<"hit", n, r>>)]
    IN IF h2.ref_count[n] = 0
       THEN [h2 EXCEPT !.cache[n] = None, !.cache_stream[n] = None]
       ELSE h2

\* A cache hit that keeps the cache and the stream after the last read.
CacheHitKeepsCache(h, n, down_stream) ==
    IF down_stream # None /\ h.cache_stream[n] = None
    THEN [h EXCEPT !.err = "AttributeError", !.out = None]
    ELSE LET h1 == IF down_stream # None
                   THEN WaitEvent(h, down_stream, h.cache_stream[n])
                   ELSE h
             r == h1.cache[n]
         IN [h1 EXCEPT !.out = r, !.log = Append(@, <<"hit", n, r>>)]

\* Lines 315-322: the cached result is handed over.
CacheHit(h, n, down_stream) ==
    IF down_stream # None /\ h.cache_stream[n] = None
    THEN [h EXCEPT !.err = "AttributeError", !.out = None]
    ELSE LET h1 == IF down_stream # None
                   THEN WaitEvent(h, down_stream, h.cache_stream[n])
                   ELSE h
             r == h1.cache[n]
             h2 == [h1 EXCEPT !.out = r, !.log = Append(@, <<"hit", n, r>>)]
         IN IF h2.ref_count[n] = 0
            THEN [h2 EXCEPT !.cache[n] = None, !.cache_stream[n] = None]
            ELSE h2

\* self.compute(*inputs) raises (a shape error, say): nothing of lines
\* 352-359 happens after it.
ComputeRaises(h, n) ==
    [h EXCEPT !.err = "ComputeError", !.out = None,
              !.log = Append(@, <<"fail", n, None>>)]

\* A transformation whose result is never stored for later consumers.
TransformNoStore(h, n, down_stream, self_stream, args) ==
    LET v == h.nval + 1
        h1 == Launch([h EXCEPT !.nval = v,
                               !.log = Append(Append(@, <<"args", n, args>>),
                                              <<"run", n, v>>)],
                     self_stream, v, {args[i] : i \in 1..Len(args)} \ {Const})
        h2 == IF self_stream # None THEN WaitEvent(h1, down_stream, self_stream) ELSE h1
    IN IF h.fail = n THEN ComputeRaises(h, n) ELSE [h2 EXCEPT !.out = v]

\* Lines 350-359: the transformation, the event for the consumer, the cache.
Transform(h, n, down_stream, self_stream, args) ==
    LET v == h.nval + 1
        h1 == Launch([h EXCEPT !.nval = v,
                               !.log = Append(Append(@, <<"args", n, args>>),
                                              <<"run", n, v>>)],
                     self_stream, v, {args[i] : i \in 1..Len(args)} \ {Const})
        h2 == IF self_stream # None THEN WaitEvent(h1, down_stream, self_stream) ELSE h1
        h3 == IF h2.ref_count[n] > 0 THEN [h2 EXCEPT !.cache[n] = v] ELSE h2
    IN IF h.fail = n THEN ComputeRaises(h, n) ELSE [h3 EXCEPT !.out = v]

\* A cache miss that keeps the handle of its stream whatever the demand.
CacheMissKeepsStream(h, n, down_stream) ==
    LET self_stream == IF down_stream # None THEN Len(h.queue) + 1 ELSE None
        h1 == IF down_stream # None
              THEN [NewStream(h) EXCEPT !.cache_stream[n] = self_stream]
              ELSE h
        h2 == IF mask[n] # None
              THEN compute_([h1 EXCEPT !.log = Append(@, <<"mask", n, mask[n]>>)],
                            mask[n], self_stream)
              ELSE [h1 EXCEPT !.out = None]
    IN IF h2.err # "none" THEN h2
       ELSE LET h3 == ComputeInputs(h2, n, 1, self_stream, h2.out, <<>>)
            IN IF h3.err # "none" THEN h3
               ELSE Transform(h3, n, down_stream, self_stream, h3.args)

\* A cache miss whose new stream first waits for the stream made before it,
\* so that the streams run one after the other.
CacheMissSerial(h, n, down_stream) ==
    LET self_stream == IF down_stream # None THEN Len(h.queue) + 1 ELSE None
        h1 == IF down_stream # None
              THEN LET hs == WaitEvent(NewStream(h), self_stream, Len(h.queue))
                   IN IF hs.ref_count[n] > 0
                      THEN [hs EXCEPT !.cache_stream[n] = self_stream]
                      ELSE hs
              ELSE h
        h2 == IF mask[n] # None
              THEN compute_([h1 EXCEPT !.log = Append(@, <<"mask", n, mask[n]>>)],
                            mask[n], self_stream)
              ELSE [h1 EXCEPT !.out = None]
    IN IF h2.err # "none" THEN h2
       ELSE LET h3 == ComputeInputs(h2, n, 1, self_stream, h2.out, <<>>)
            IN IF h3.err # "none" THEN h3
               ELSE Transform(h3, n, down_stream, self_stream, h3.args)

\* A cache miss that computes the mask after the inputs.
CacheMissMaskLast(h, n, down_stream) ==
    LET self_stream == IF down_stream # None THEN Len(h.queue) + 1 ELSE None
        h1 == IF down_stream # None
              THEN LET hs == NewStream(h)
                   IN IF hs.ref_count[n] > 0
                      THEN [hs EXCEPT !.cache_stream[n] = self_stream]
                      ELSE hs
              ELSE h
        h2 == ComputeInputs(h1, n, 1, self_stream, None, <<>>)
    IN IF h2.err # "none" THEN h2
       ELSE LET h3 == IF mask[n] # None
                      THEN compute_([h2 EXCEPT !.log = Append(@, <<"mask", n, mask[n]>>)],
                                    mask[n], self_stream)
                      ELSE h2
            IN IF h3.err # "none" THEN h3
               ELSE Transform(h3, n, down_stream, self_stream, h2.args)

\* Lines 324-359: the node is computed.
CacheMiss(h, n, down_stream) ==
    LET self_stream == IF down_stream # None THEN Len(h.queue) + 1 ELSE None
        h1 == IF down_stream # None
              THEN LET hs == NewStream(h)
                   IN IF hs.ref_count[n] > 0
                      THEN [hs EXCEPT !.cache_stream[n] = self_stream]
                      ELSE hs
              ELSE h
        h2 == IF mask[n] # None
              THEN compute_([h1 EXCEPT !.log = Append(@, <<"mask", n, mask[n]>>)],
                            mask[n], self_stream)
              ELSE [h1 EXCEPT !.out = None]
    IN IF h2.err # "none" THEN h2
       ELSE LET h3 == ComputeInputs(h2, n, 1, self_stream, h2.out, <<>>)
            IN IF h3.err # "none" THEN h3
               ELSE Transform(h3, n, down_stream, self_stream, h3.args)

\* A compute_ that goes on after the reference count fell below zero.
ComputeNoRaise(h, n, down_stream) ==
    LET h1 == [h EXCEPT !.ref_count[n] = @ - 1,
                        !.log = Append(@, <<"enter", n, None>>)]
    IN IF h1.cache[n] # None THEN CacheHit(h1, n, down_stream)
       ELSE CacheMiss(h1, n, down_stream)

\* CustomFactor.compute_
compute_(h, n, down_stream) ==
    LET h1 == [h EXCEPT !.ref_count[n] = @ - 1,
                        !.log = Append(@, <<"enter", n, None>>)]
    IN IF h1.ref_count[n] < 0
       THEN [h1 EXCEPT !.err = "ValueError", !.out = None,
                       !.log = Append(@, <<"raise", n, None>>)]
       ELSE IF h1.cache[n] # None THEN CacheHit(h1, n, down_stream)
       ELSE CacheMiss(h1, n, down_stream)

\* ---------------------------------------------------------------- clean_up_

RECURSIVE clean_up_(_, _)
RECURSIVE CleanInputs(_, _, _)

\* The loop over self.inputs of clean_up_, from position i on.
CleanInputs(h, n, i) ==
    IF i > Len(inputs[n]) THEN h
    ELSE IF IsFactor(inputs[n][i])
         THEN CleanInputs(clean_up_(h, inputs[n][i]), n, i + 1)
         ELSE CleanInputs(h, n, i + 1)

\* A clean_up_ that does not go down into the mask.
CleanUpNoMask(h, n) ==
    LET h1 == [h EXCEPT !.engine[n] = FALSE,
                        !.cache[n] = None,
                        !.cache_stream[n] = None,
                        !.ref_count[n] = 0]
    IN CleanInputs(h1, n, 1)

\* CustomFactor.clean_up_
clean_up_(h, n) ==
    LET h1 == [h EXCEPT !.engine[n] = FALSE,
                        !.cache[n] = None,
                        !.cache_stream[n] = None,
                        !.ref_count[n] = 0]
        h2 == CleanInputs(h1, n, 1)
    IN IF mask[n] # None THEN clean_up_(h2, mask[n]) ELSE h2

\* ------------------------------------------------------------------ graphs

\* The inputs a node n can be built with: none (a leaf), one node, or two
\* operands of which the second may be a constant (a + b, a * 2, a[key]).
InputChoices(n) ==
    {<<>>} \cup {<<a>> : a \in 1..(n - 1)}
           \cup {<<a, b>> : a \in 1..(n - 1), b \in (1..(n - 1)) \cup {Const}}

\* The masks a node n can be given.
MaskChoices(n) == {None} \cup 1..(n - 1)

\* The nodes n reads directly: its inputs that are nodes, and its mask.
Ups(n) ==
    ({inputs[n][i] : i \in 1..Len(inputs[n])} \ {Const})
        \cup (IF mask[n] # None THEN {mask[n]} ELSE {})

\* How many times node m is an input or the mask of node n.
Uses(n, m) == CountIn(inputs[n], m) + (IF mask[n] = m THEN 1 ELSE 0)

RECURSIVE ReachFrom(_)
\* The nodes reachable from n through inputs and masks, n included.
ReachFrom(n) == {n} \cup UNION {ReachFrom(m) : m \in Ups(n)}

\* The nodes reachable from the roots in the sequence rs.
Reach(rs) == UNION {ReachFrom(rs[i]) : i \in 1..Len(rs)}

\* ------------------------------------------------------------------- driver

\* The heap before any pass: the class defaults of lines 203-206 and 18;
\* `fail` is the node whose transformation raises in this pass, if any.
Heap0(conc) ==
    [ref_count    |-> [n \in Nodes |-> 0],
     cache        |-> [n \in Nodes |-> None],
     cache_stream |-> [n \in Nodes |-> None],
     engine       |-> [n \in Nodes |-> FALSE],
     registered   |-> <<>>,
     log          |-> <<>>,
     nval         |-> 0,
     queue        |-> IF conc THEN << <<>> >> ELSE <<>>,
     done         |-> IF conc THEN <<0>> ELSE <<>>,
     written      |-> {},
     race         |-> FALSE,
     err          |-> "none",
     out          |-> None,
     args         |-> <<>>,
     fail         |-> None]

\* The stream the engine passes to the roots: its own stream, or None.
RootStream == IF drv.conc THEN 1 ELSE None

InitGraph ==
    /\ inputs \in {f \in [Nodes -> UNION {InputChoices(n) : n \in Nodes}] :
                     \A n \in Nodes : f[n] \in InputChoices(n)}
    /\ mask \in {f \in [Nodes -> {None} \cup Nodes] :
                     \A n \in Nodes : f[n] \in MaskChoices(n)}
    /\ groupby = [n \in Nodes |-> IF n = Top THEN "date" ELSE "asset"]
    /\ win = [n \in Nodes |-> 1]

\* The engine runs without streams (compute_ is given None), and the caller
\* is free to request any node any number of times.
Init ==
    /\ InitGraph
    /\ drv = [phase |-> "idle", pre |-> <<>>, comp |-> <<>>, conc |-> FALSE,
              paired |-> FALSE, roots |-> MaxRoots, pass |-> 1,
              prev |-> "none", clean |-> TRUE]
    /\ heap = Heap0(drv.conc)
    /\ call = <<>>
    /\ ret = <<>>

\* The engine runs with streams (compute_ is given the engine's stream) and
\* requests a root only as often as it pre-computed it.
InitStream ==
    /\ InitGraph
    /\ drv = [phase |-> "idle", pre |-> <<>>, comp |-> <<>>, conc |-> TRUE,
              paired |-> TRUE, roots |-> MaxRoots, pass |-> 1,
              prev |-> "none", clean |-> TRUE]
    /\ heap = Heap0(drv.conc)
    /\ call = <<>>
    /\ ret = <<>>

\* The engine calls r.pre_compute_(engine, start, end) on a root.
PreComputeRoot(r) ==
    /\ drv.phase \in {"idle", "pre"}
    /\ Len(drv.pre) < drv.roots
    /\ heap' = pre_compute_(heap, r)
    /\ drv' = [drv EXCEPT !.phase = "pre", !.pre = Append(@, r)]
    /\ UNCHANGED <<graph, pure>>

\* The engine calls r.compute_(stream) on a root and, with streams, uses the
\* returned tensor in work it puts on its own stream.
ComputeRoot(r) ==
    /\ drv.phase \in {"pre", "compute"}
    /\ Len(drv.comp) < drv.roots
    /\ drv.paired => CountIn(drv.comp, r) < CountIn(drv.pre, r)
    /\ LET h == compute_(heap, r, RootStream)
       IN /\ heap' = IF h.err = "none" /\ RootStream # None
                     THEN Launch([h EXCEPT !.nval = @ + 1], RootStream,
                                 h.nval + 1, {h.out})
                     ELSE h
          /\ drv' = [drv EXCEPT !.phase = IF h.err = "none" THEN "compute" ELSE "aborted",
                                !.comp = Append(@, r)]
    /\ UNCHANGED <<graph, pure>>

\* The engine calls r.clean_up_() on a root.
CleanUp(r) ==
    /\ drv.phase \in {"pre", "compute", "aborted"}
    /\ \E i \in 1..Len(drv.pre) : drv.pre[i] = r
    /\ heap' = clean_up_(heap, r)
    /\ drv' = [drv EXCEPT !.phase = "cleaned"]
    /\ UNCHANGED <<graph, pure>>

\* The device executes the next operation of stream s.
DeviceStep(s) ==
    /\ s \in 1..Len(heap.queue)
    /\ heap.done[s] < Len(heap.queue[s])
    /\ LET op == heap.queue[s][heap.done[s] + 1]
       IN /\ op.kind = "wait" => heap.done[op.evs] >= op.evp
          /\ heap' = IF op.kind = "wait"
                     THEN [heap EXCEPT !.done[s] = @ + 1]
                     ELSE [heap EXCEPT !.done[s] = @ + 1,
                                       !.written = @ \cup {op.out},
                                       !.race = @ \/ ~(op.reads \subseteq heap.written)]
    /\ UNCHANGED <<graph, drv, pure>>

Next ==
    \/ \E r \in Nodes : PreComputeRoot(r)
    \/ \E r \in Nodes : ComputeRoot(r)
    \/ \E r \in Nodes : CleanUp(r)

Spec == Init /\ [][Next]_vars

NextStream ==
    \/ \E r \in Nodes : PreComputeRoot(r)
    \/ \E r \in Nodes : ComputeRoot(r)
    \/ \E s \in 1..Len(heap.queue) : DeviceStep(s)

SpecStream == InitStream /\ [][NextStream]_vars

\* ------------------------------------------------- the protocol's properties

\* The entries of the log with this tag about node n.
Entries(tag, n) ==
    {i \in 1..Len(heap.log) : heap.log[i][1] = tag /\ heap.log[i][2] = n}

\* How often the transformation `compute` of node n ran in this pass.
Runs(n) == Cardinality(Entries("run", n))

\* No root was requested more often than it was pre-computed, and nothing
\* was cleaned up in between: the pairing of the two passes is kept so far.
Paired ==
    /\ drv.phase \in {"idle", "pre", "compute", "aborted"}
    /\ \A n \in Nodes : CountIn(drv.comp, n) <= CountIn(drv.pre, n)

\* Every pre-computed root has been computed.
PassComplete ==
    /\ drv.phase = "compute"
    /\ \A n \in Nodes : CountIn(drv.comp, n) = CountIn(drv.pre, n)

\* C1: in a compute pass that follows a pre-compute pass, the transformation
\* of a node never runs twice, it has run exactly once for every node
\* reachable from the roots computed so far, and every cache hit hands over the
\* tensor that this one run stored.
C1_ComputeOnce ==
    Paired =>
        /\ \A n \in Nodes : Runs(n) <= 1
        /\ \A n \in Reach(drv.comp) : Runs(n) = 1
        /\ \A n \in Nodes : \A i \in Entries("hit", n) :
               \E j \in Entries("run", n) :
                   j < i /\ heap.log[j][3] = heap.log[i][3] /\ heap.log[i][3] # None
        /\ \A n \in Nodes :
               Cardinality(Entries("enter", n))
                   = Runs(n) + Cardinality(Entries("hit", n))

\* A complete pass in which a node was consumed by two distinct downstream
\* nodes, another twice by one node, or as an input and as the mask.
C1_Witness ==
    /\ PassComplete
    /\ \E n \in Nodes :
        /\ Cardinality(Entries("hit", n)) >= 1
        /\ Runs(n) = 1
        /\ \E k \in Nodes : mask[k] = n /\ CountIn(inputs[k], n) = 1

\* C2: while the pairing is kept, no reference count is negative and the
\* reference-count error has not been raised.
C2_RefCountNonNegative ==
    Paired =>
        /\ \A n \in Nodes : heap.ref_count[n] >= 0
        /\ heap.err = "none"
        /\ \A n \in Nodes : Entries("raise", n) = {}

\* A complete pass over a graph with a mask and a shared node.
C2_Witness ==
    /\ PassComplete
    /\ Len(drv.comp) = MaxRoots
    /\ \E k \in Nodes : mask[k] # None /\ Cardinality(Entries("enter", mask[k])) >= 2

\* The last n entries of the log.
LastEntry == heap.log[Len(heap.log)]

\* C3: a reference count is negative only after the reference-count error was
\* raised by the very call that drove it below zero: that call did nothing
\* else (its mask, its inputs and its transformation were not touched), no
\* enclosing call went on, and the root call returned nothing.
C3_NegativeRaises ==
    /\ (\E n \in Nodes : heap.ref_count[n] < 0) => heap.err = "ValueError"
    /\ heap.err = "ValueError" =>
        /\ Len(heap.log) >= 2
        /\ LastEntry[1] = "raise"
        /\ heap.log[Len(heap.log) - 1] = <<"enter", LastEntry[2], None>>
        /\ drv.phase = "aborted" => heap.ref_count[LastEntry[2]] = 0 - 1
        /\ Runs(LastEntry[2]) + Cardinality(Entries("hit", LastEntry[2]))
               = Cardinality(Entries("enter", LastEntry[2])) - 1
        /\ heap.out = None
        /\ drv.phase \in {"aborted", "cleaned"}
    /\ drv.phase = "aborted" => heap.err # "none"

\* The error was raised by a node below the root that was requested: it
\* crossed at least one enclosing compute_.
C3_Witness ==
    /\ heap.err = "ValueError"
    /\ drv.phase = "aborted"
    /\ LastEntry[2] # drv.comp[Len(drv.comp)]
    /\ heap.ref_count[LastEntry[2]] < 0

\* ---------------------------------------------------- the streams' properties

\* The operations put on stream s.
Ops(s) == 1..Len(heap.queue[s])

\* The stream and the position of the work that writes tensor v.
Producer(v) ==
    {<<t, q>> \in UNION {{<<t, q>> : q \in Ops(t)} : t \in 1..Len(heap.queue)} :
        heap.queue[t][q].kind = "work" /\ heap.queue[t][q].out = v}

\* C4: every work that reads a tensor written on another stream comes, on its
\* own stream, after a wait for an event of the writing stream recorded after
\* the writing work; and in no order of execution of the streams does a work
\* read a tensor before it is written.
C4_ConsumerWaits ==
    /\ ~heap.race
    /\ \A s \in 1..Len(heap.queue) : \A p \in Ops(s) :
         \A v \in heap.queue[s][p].reads : \A tq \in Producer(v) :
             tq[1] # s =>
                 \E w \in 1..(p - 1) :
                     /\ heap.queue[s][w].kind = "wait"
                     /\ heap.queue[s][w].evs = tq[1]
                     /\ heap.queue[s][w].evp >= tq[2]
    /\ \A s \in 1..Len(heap.queue) : \A p \in Ops(s) :
         \A v \in heap.queue[s][p].reads : Producer(v) # {}

\* All streams ran to their end after a pass in which a cached tensor was
\* handed to a second consumer.
C4_Witness ==
    /\ PassComplete
    /\ \E n \in Nodes : Entries("hit", n) # {}
    /\ \A s \in 1..Len(heap.queue) : heap.done[s] = Len(heap.queue[s])
    /\ Len(heap.queue) >= 3

\* ---------------------------------------------------- get_total_backwards_

\* The larger of two integers.
Max2(a, b) == IF a >= b THEN a ELSE b

\* Python's max() of a non-empty collection of integers.
MaxOf(S) == CHOOSE x \in S : \A y \in S : y <= x

\* The inputs of n that are nodes.
FactorInputs(n) == {inputs[n][i] : i \in 1..Len(inputs[n])} \ {Const}

RECURSIVE get_total_backwards_(_)

\* A look-back in which the windows of the inputs add up instead of the
\* largest one being taken.
TotalBackwardsSum(n) ==
    LET ups == [i \in 1..Len(inputs[n]) |->
                   IF IsFactor(inputs[n][i]) THEN get_total_backwards_(inputs[n][i]) ELSE 0]
        sum == IF Len(inputs[n]) = 0 THEN 0
               ELSE IF Len(inputs[n]) = 1 THEN ups[1] ELSE ups[1] + ups[2]
        backwards == sum + win[n] - 1
    IN IF mask[n] # None
       THEN Max2(get_total_backwards_(mask[n]), backwards)
       ELSE backwards

\* CustomFactor.get_total_backwards_
get_total_backwards_(n) ==
    LET ups == {get_total_backwards_(up) : up \in FactorInputs(n)}
        backwards == (IF inputs[n] # <<>> /\ ups # {} THEN MaxOf(ups) ELSE 0)
                         + win[n] - 1
    IN IF mask[n] # None
       THEN Max2(get_total_backwards_(mask[n]), backwards)
       ELSE backwards

\* Every tuple of at most two inputs, nodes below n or constants.
AnyInputs(n) ==
    {<<>>} \cup {<<a>> : a \in (1..(n - 1)) \cup {Const}}
           \cup {<<a, b>> : a \in (1..(n - 1)) \cup {Const},
                            b \in (1..(n - 1)) \cup {Const}}

\* No pass is under way and no call has been made.
NoPass ==
    /\ drv = [phase |-> "idle", pre |-> <<>>, comp |-> <<>>, conc |-> FALSE,
              paired |-> FALSE, roots |-> MaxRoots, pass |-> 1,
              prev |-> "none", clean |-> TRUE]
    /\ heap = Heap0(FALSE)

InitBackwards ==
    /\ inputs \in {f \in [Nodes -> UNION {AnyInputs(n) : n \in Nodes}] :
                     \A n \in Nodes : f[n] \in AnyInputs(n)}
    /\ mask \in {f \in [Nodes -> {None} \cup Nodes] :
                     \A n \in Nodes : f[n] \in MaskChoices(n)}
    /\ groupby = [n \in Nodes |-> "asset"]
    /\ win \in [Nodes -> 1..MaxWin]
    /\ NoPass
    /\ call = <<>>
    /\ ret = <<>>

\* The engine asks every node for its look-back.
GetTotalBackwards ==
    /\ call = <<>>
    /\ call' = <<"get_total_backwards_">>
    /\ ret' = [n \in Nodes |-> get_total_backwards_(n)]
    /\ UNCHANGED <<graph, heap, drv>>

SpecBackwards == InitBackwards /\ [][GetTotalBackwards]_vars

\* The look-backs have been computed.
BackwardsDone == call = <<"get_total_backwards_">>

\* C5: a node's look-back is the largest look-back of its node inputs (0 when
\* it has none), plus win - 1, and with a mask the larger of that and the
\* mask's look-back; a mask-free chain reports w1 + w2 + w3 - 3, and a mask
\* that needs more than the chain raises the total to what the mask needs.
C5_TotalBackwards ==
    BackwardsDone =>
        /\ \A n \in Nodes :
            LET B == (IF FactorInputs(n) = {} THEN 0
                      ELSE MaxOf({ret[u] : u \in FactorInputs(n)})) + (win[n] - 1)
            IN /\ mask[n] = None => ret[n] = B
               /\ mask[n] # None => ret[n] = Max2(B, ret[mask[n]])
               /\ ret[n] >= 0
               /\ \A u \in FactorInputs(n) : ret[n] >= ret[u] + win[n] - 1
        /\ (inputs = <<<<>>, <<1>>, <<2>>>> /\ mask = <<None, None, None>>)
             => ret[3] = win[1] + win[2] + win[3] - 3
        /\ (inputs = <<<<>>, <<>>, <<2>>>> /\ mask = <<None, None, 1>>
                /\ win[1] - 1 > win[2] + win[3] - 2)
             => ret[3] = win[1] - 1

\* A masked node whose mask needs more history than its input does.
C5_Witness ==
    /\ BackwardsDone
    /\ inputs = <<<<>>, <<>>, <<2>>>>
    /\ mask = <<None, None, 1>>
    /\ win = <<3, 1, 2>>
    /\ ret = <<2, 0, 2>>

\* ------------------------------------------------------------ constructors

\* An optional integer argument or attribute: <<>> is None, <<k>> is k.
OptInts(S) == {<<>>} \cup {<<k>> : k \in S}

\* Python's truth value of an optional integer: None and 0 are false.
Truthy(opt) == opt # <<>> /\ opt[1] # 0

\* The node classes that group by datetime (subclasses of TimeGroupFactor).
TimeGroupClasses ==
    {"RankFactor", "DemeanFactor", "ZScoreFactor", "QuantileFactor", "ToWeightFactor"}

\* The class attributes a constructor reads: the default win, _min_win, the
\* groupby key.  "Sub" stands for a subclass of CustomFactor that sets its
\* own win and _min_win; the other CustomFactor classes of the catalogue keep
\* the defaults of CustomFactor.
Classes ==
    {[name |-> c, win |-> 1, min_win |-> <<>>, groupby |-> "date"] :
        c \in TimeGroupClasses}
    \cup {[name |-> c, win |-> 1, min_win |-> <<>>, groupby |-> "asset"] :
        c \in {"CustomFactor", "AssetZScoreFactor"}}
    \cup {[name |-> "Sub", win |-> w, min_win |-> m, groupby |-> "asset"] :
        w \in 1..MaxWin, m \in OptInts(0..MaxWin)}

\* The class with this name.
ClassOf(c) == CHOOSE k \in Classes : k.name = c

\* (self._min_win or 1)
MinWinOf(cls) == IF Truthy(cls.min_win) THEN cls.min_win[1] ELSE 1

\* What a constructor or a builder gives: a node, or the error it raised.
Raised(e) ==
    [err |-> e, cls |-> "", win |-> 0, groupby |-> "", inputs |-> "", mask |-> None,
     attr |-> <<>>]

\* CustomFactor.__init__: `inputs` is "None", "empty" (an empty tuple),
\* "tuple" (a non-empty list or tuple) or "factor" (a single node, not in a
\* tuple).
CustomInit(cls, w, ins) ==
    LET self_win == IF Truthy(w) THEN w[1] ELSE cls.win
        self_inputs == IF ins \in {"tuple", "factor"} THEN ins ELSE "None"
    IN IF self_inputs \notin {"tuple", "None"} THEN Raised("AssertionError")
       ELSE IF ~(self_win >= MinWinOf(cls)) THEN Raised("AssertionError")
       ELSE [err |-> "none", cls |-> cls.name, win |-> self_win,
             groupby |-> cls.groupby, inputs |-> self_inputs, mask |-> None,
             attr |-> <<>>]

\* A TimeGroupFactor.__init__ that does not check the window.
TimeGroupInitNoAssert(cls, w, ins, m) ==
    LET o == CustomInit(cls, w, ins)
    IN IF o.err # "none" THEN o ELSE [o EXCEPT !.mask = m]

\* TimeGroupFactor.__init__
TimeGroupInit(cls, w, ins, m) ==
    LET o == CustomInit(cls, w, ins)
    IN IF o.err # "none" THEN o
       ELSE IF [o EXCEPT !.mask = m].win # 1 THEN Raised("AssertionError")
       ELSE [o EXCEPT !.mask = m]

\* The constructor of class cls.
Construct(cls, w, ins, m) ==
    IF cls.name \in TimeGroupClasses THEN TimeGroupInit(cls, w, ins, m)
    ELSE CustomInit(cls, w, ins)

\* BaseFactor.rank
rank(ascending, m) ==
    LET factor == TimeGroupInit(ClassOf("RankFactor"), <<>>, "tuple", m)
    IN [factor EXCEPT !.attr = <<"ascending", ascending>>]

\* BaseFactor.zscore
zscore(axis_asset, m) ==
    IF axis_asset
    THEN [CustomInit(ClassOf("AssetZScoreFactor"), <<>>, "tuple") EXCEPT !.mask = m]
    ELSE TimeGroupInit(ClassOf("ZScoreFactor"), <<>>, "tuple", m)

\* BaseFactor.demean: g is <<"None">>, <<"str", key>>, <<"dict">> or
\* <<"other">> (any other object).
demean(g, m) ==
    LET factor == TimeGroupInit(ClassOf("DemeanFactor"), <<>>, "tuple", m)
    IN IF g[1] = "str" THEN [factor EXCEPT !.groupby = g[2]]
       ELSE IF g[1] = "dict" THEN [factor EXCEPT !.attr = <<"group_dict">>]
       ELSE IF g[1] # "None" THEN Raised("ValueError")
       ELSE factor

\* BaseFactor.quantile
quantile(bins, m) ==
    LET factor == TimeGroupInit(ClassOf("QuantileFactor"), <<>>, "tuple", m)
    IN [factor EXCEPT !.attr = <<"bins", bins>>]

\* BaseFactor.to_weight
to_weight(dm, m) ==
    LET factor == TimeGroupInit(ClassOf("ToWeightFactor"), <<>>, "tuple", m)
    IN [factor EXCEPT !.attr = <<"demean", dm>>]

\* No graph has been built.
NoGraph ==
    /\ inputs = [n \in Nodes |-> <<>>]
    /\ mask = [n \in Nodes |-> None]
    /\ groupby = [n \in Nodes |-> "asset"]
    /\ win = [n \in Nodes |-> 1]
    /\ NoPass

InitPure ==
    /\ NoGraph
    /\ call = <<>>
    /\ ret = <<>>

\* The caller constructs a node of some class.
New ==
    /\ call = <<>>
    /\ \E cls \in Classes, w \in OptInts((0 - 1)..MaxWin),
          ins \in {"None", "empty", "tuple", "factor"}, m \in {None, 1} :
          /\ call' = <<"__init__", cls, w, ins, m>>
          /\ ret' = Construct(cls, w, ins, m)
    /\ UNCHANGED <<graph, heap, drv>>

\* The caller builds a node with one of the builder methods of a node.
Build ==
    /\ call = <<>>
    /\ \E m \in {None, 1} :
          \/ \E a \in BOOLEAN :
                call' = <<"rank", a, m>> /\ ret' = rank(a, m)
          \/ \E a \in BOOLEAN :
                call' = <<"zscore", a, m>> /\ ret' = zscore(a, m)
          \/ \E g \in {<<"None">>, <<"dict">>, <<"other">>, <<"str", "sector">>,
                       <<"str", "date">>, <<"str", "asset">>} :
                call' = <<"demean", g, m>> /\ ret' = demean(g, m)
          \/ \E b \in 1..MaxWin :
                call' = <<"quantile", b, m>> /\ ret' = quantile(b, m)
          \/ \E d \in BOOLEAN :
                call' = <<"to_weight", d, m>> /\ ret' = to_weight(d, m)
    /\ UNCHANGED <<graph, heap, drv>>

SpecNew == InitPure /\ [][New \/ Build]_vars

\* A constructor was called with an integer for win.
NewWithWin == call # <<>> /\ call[1] = "__init__" /\ call[3] # <<>>

\* C6: a win below the minimum window of the class makes the constructor
\* fail, and a node that was obtained has the win that was passed, which is
\* at least that minimum.
C6_WinChecked ==
    NewWithWin =>
        /\ call[3][1] < MinWinOf(call[2]) => ret.err # "none"
        /\ ret.err = "none" => ret.win >= MinWinOf(call[2]) /\ ret.win = call[3][1]

\* C7 as stated: every node of the five classes has win 1 and groupby 'date'.
C7_AlwaysByDate ==
    (call # <<>> /\ ret.err = "none" /\ ret.cls \in TimeGroupClasses)
        => ret.win = 1 /\ ret.groupby = "date"

\* C7, amended: every node of the five classes has win 1, a constructor call
\* that would leave another win fails, and the node groups by 'date' unless it
\* is the Demean node that demean(groupby=<column name>) built, which groups
\* by that column; zscore(axis_asset=True) builds a node of another class.
C7_WinOneByDateOrColumn ==
    call # <<>> =>
        /\ (ret.err = "none" /\ ret.cls \in TimeGroupClasses) =>
            /\ ret.win = 1
            /\ ret.groupby # "date" =>
                  /\ ret.cls = "DemeanFactor"
                  /\ call[1] = "demean" /\ call[2][1] = "str"
                  /\ ret.groupby = call[2][2]
        /\ (call[1] = "__init__" /\ call[2].name \in TimeGroupClasses
               /\ Truthy(call[3]) /\ call[3][1] # 1) => ret.err = "AssertionError"
        /\ (call[1] = "demean" /\ call[2][1] = "str") =>
               ret.err = "none" /\ ret.groupby = call[2][2]
        /\ (call[1] = "demean" /\ call[2][1] = "other") => ret.err = "ValueError"
        /\ (call[1] = "zscore" /\ call[2]) => ret.cls \notin TimeGroupClasses

\* demean(groupby='sector') was accepted and its node groups by sector.
C7_Witness ==
    /\ call = <<"demean", <<"str", "sector">>, 1>>
    /\ ret.err = "none"
    /\ ret.cls = "DemeanFactor"
    /\ ret.win = 1
    /\ ret.groupby = "sector"

\* ------------------------------------------------------------ _format_input

\* The assets and the dates of the panel.
Assets == {1, 2}
Dates == {1, 2}

\* The row keys and the column keys of a panel grouped by key.
RowsOf(key) == IF key = "asset" THEN Assets ELSE Dates
ColsOf(key) == IF key = "asset" THEN Dates ELSE Assets

\* The panels grouped by key whose entries are taken from V.
Panels(key, V) == [RowsOf(key) -> [ColsOf(key) -> V]]

\* engine.revert_: the panel as a flat series labelled by (asset, date).
revert_(data, key) ==
    [ad \in Assets \X Dates |->
        IF key = "asset" THEN data[ad[1]][ad[2]] ELSE data[ad[2]][ad[1]]]

\* engine.group_by_: the flat series as a panel grouped by key.
group_by_(series, key) ==
    IF key = "asset"
    THEN [a \in Assets |-> [d \in Dates |-> series[<<a, d>>]]]
    ELSE [d \in Dates |-> [a \in Assets |-> series[<<a, d>>]]]

\* BaseFactor._regroup
Regroup(self, data) == group_by_(data, self.groupby)

\* BaseFactor._regroup_by_other
RegroupByOther(self, factor, factor_out) ==
    IF factor.groupby # self.groupby
    THEN Regroup(self, revert_(factor_out, factor.groupby))
    ELSE factor_out

\* Tensor.masked_fill(~mask, nan)
MaskedFill(data, m) ==
    [r \in DOMAIN data |-> [c \in DOMAIN data[r] |->
        IF ~m[r][c] THEN NaN ELSE data[r][c]]]

\* Rolling(ret, win, adjustments)
Rolling(data, w, adjustments) ==
    [rolling |-> TRUE, data |-> data, win |-> w, adjustments |-> adjustments]

\* A tensor that is not wrapped in a Rolling view, in the same shape.
Plain(data) == [rolling |-> FALSE, data |-> data, win |-> 1, adjustments |-> "None"]

\* A _format_input that applies the mask as it comes, without regrouping it.
FormatInputRawMask(self, upstream, upstream_out, mask_factor, mask_out) ==
    LET r1 == RegroupByOther(self, upstream, upstream_out)
        r2 == IF mask_out # <<>> THEN MaskedFill(r1, mask_out[1]) ELSE r1
    IN IF self.win > 1 THEN Rolling(r2, self.win, upstream.adjustments) ELSE Plain(r2)

\* A _format_input that masks the upstream tensor before it regroups it.
FormatInputMaskFirst(self, upstream, upstream_out, mask_factor, mask_out) ==
    LET r1 == IF mask_out # <<>>
              THEN MaskedFill(upstream_out, RegroupByOther(self, mask_factor, mask_out[1]))
              ELSE upstream_out
        r2 == RegroupByOther(self, upstream, r1)
    IN IF self.win > 1 THEN Rolling(r2, self.win, upstream.adjustments) ELSE Plain(r2)

\* CustomFactor._format_input; mask_out is <<>> (None) or <<the mask's tensor>>.
FormatInput(self, upstream, upstream_out, mask_factor, mask_out) ==
    LET r1 == RegroupByOther(self, upstream, upstream_out)
        r2 == IF mask_out # <<>>
              THEN MaskedFill(r1, RegroupByOther(self, mask_factor, mask_out[1]))
              ELSE r1
    IN IF self.win > 1 THEN Rolling(r2, self.win, upstream.adjustments) ELSE Plain(r2)

\* Lines 336-359 of compute_ on tensors: ins are the inputs of the node, a
\* constant or a node with the tensor its compute_ returned; what `compute`
\* is called with, and what compute_ returns: the transformation's result.
ComputeArgs(self, ins, mask_factor, mask_out) ==
    LET args == [i \in 1..Len(ins) |->
                    IF ins[i].factor
                    THEN FormatInput(self, ins[i], ins[i].out, mask_factor, mask_out)
                    ELSE ins[i]]
    IN [args |-> args, out |-> [fn |-> "compute", args |-> args]]

\* The values of a tensor.
Vals == {NaN} \cup 1..MaxVal

\* An upstream node with its tensor, and a constant input.
FactorIn(g, out) ==
    [factor |-> TRUE, groupby |-> g, out |-> out, adjustments |-> "None"]
ConstIn == [factor |-> FALSE, groupby |-> "", out |-> <<>>, adjustments |-> "None"]

\* A node with a factor input, alone or beside a constant, and perhaps a mask.
InitFormat ==
    /\ NoGraph
    /\ ret = <<>>
    /\ \E gn \in {"asset", "date"}, w \in 1..MaxWin, gu \in {"asset", "date"},
          gm \in {"asset", "date"} :
         \E up \in Panels(gu, Vals),
            mo \in {<<>>} \cup {<<m>> : m \in Panels(gm, BOOLEAN)},
            shape \in 1..3 :
            call = [self |-> [groupby |-> gn, win |-> w],
                    ins |-> IF shape = 1 THEN <<FactorIn(gu, up)>>
                            ELSE IF shape = 2 THEN <<FactorIn(gu, up), ConstIn>>
                            ELSE <<ConstIn, FactorIn(gu, up)>>,
                    mask |-> [groupby |-> gm],
                    mask_out |-> mo]

\* compute_ formats the inputs of the node and runs its transformation.
ComputeOnTensors ==
    /\ ret = <<>>
    /\ ret' = <<ComputeArgs(call.self, call.ins, call.mask, call.mask_out)>>
    /\ UNCHANGED <<graph, heap, drv, call>>

SpecFormat == InitFormat /\ [][ComputeOnTensors]_vars

\* The entry of a panel grouped by key for asset a at date d.
At(data, key, a, d) == IF key = "asset" THEN data[a][d] ELSE data[d][a]

\* C8: with a mask, every node input reaches the transformation with missing
\* where the mask is false for that asset and date and with the upstream value
\* elsewhere; constants arrive as they are, and compute_ returns the
\* transformation's result as it is.
C8_MaskedInputs ==
    (ret # <<>> /\ call.mask_out # <<>>) =>
        /\ Len(ret[1].args) = Len(call.ins)
        /\ \A i \in 1..Len(call.ins) :
            IF call.ins[i].factor
            THEN \A a \in Assets, d \in Dates :
                   At(ret[1].args[i].data, call.self.groupby, a, d)
                     = IF At(call.mask_out[1], call.mask.groupby, a, d)
                       THEN At(call.ins[i].out, call.ins[i].groupby, a, d)
                       ELSE NaN
            ELSE ret[1].args[i] = call.ins[i]
        /\ ret[1].out = [fn |-> "compute", args |-> ret[1].args]

\* A mask grouped by another key than the node, false for one asset only,
\* blanked that asset of a fully present input and nothing else.
C8_Witness ==
    /\ ret # <<>>
    /\ call.mask_out # <<>>
    /\ call.mask.groupby = "asset"
    /\ call.self.groupby = "date"
    /\ call.mask_out[1] = [a \in Assets |-> [d \in Dates |-> a = 1]]
    /\ Len(call.ins) = 2
    /\ call.ins[1].factor
    /\ call.ins[1].groupby = "date"
    /\ call.ins[1].out = [d \in Dates |-> [a \in Assets |-> 1]]
    /\ ret[1].args[1].data = [d \in Dates |-> [a \in Assets |-> IF a = 1 THEN 1 ELSE NaN]]
    /\ ~ret[1].args[2].factor

\* -------------------------------------------------------------- ShiftFactor

\* The smaller of two integers.
Min2(a, b) == IF a <= b THEN a ELSE b

\* A bound of a Python slice over a dimension of length n, as an offset
\* from 0: a negative bound counts from the end, and both are clipped.
SliceBound(i, n) == IF i < 0 THEN Max2(i + n, 0) ELSE Min2(i, n)

\* The positions (1-based) a slice lo:hi selects in a dimension of length n.
Slice(lo, hi, n) == {j \in 1..n : SliceBound(lo, n) <= j - 1 /\ j - 1 < SliceBound(hi, n)}

\* Tensor.roll(periods, dims=1) on one row.
Roll(row, periods) ==
    [j \in 1..Len(row) |-> row[((j - 1 - periods) % Len(row)) + 1]]

\* The row with the selected positions set to missing.
FillNaN(row, sel) == [j \in 1..Len(row) |-> IF j \in sel THEN NaN ELSE row[j]]

\* ShiftFactor.compute
ShiftCompute(data, periods) ==
    [r \in 1..Len(data) |->
        LET shift == Roll(data[r], periods)
        IN IF periods > 0
           THEN FillNaN(shift, Slice(0, periods, Len(shift)))
           ELSE FillNaN(shift, Slice(periods, Len(shift), Len(shift)))]

\* The rows of length n with values in V.
Rows(n, V) == [1..n -> V]

\* A tensor of one or two rows and the periods to shift it by.
InitShift ==
    /\ NoGraph
    /\ ret = <<>>
    /\ \E n \in 1..MaxLen, p \in (0 - MaxLen - 1)..(MaxLen + 1) :
         \E r1 \in Rows(n, Vals), r2 \in Rows(n, Vals) :
            call \in {[data |-> <<r1>>, periods |-> p],
                      [data |-> <<r1, r2>>, periods |-> p]}

\* The node is computed on its input tensor.
Shift ==
    /\ ret = <<>>
    /\ ret' = <<ShiftCompute(call.data, call.periods)>>
    /\ UNCHANGED <<graph, heap, drv, call>>

SpecShift == InitShift /\ [][Shift]_vars

\* C9: position j of a shifted row holds the input of position j - periods
\* when there is one, and missing otherwise, whatever the sign of periods.
C9_ShiftByPeriods ==
    ret # <<>> =>
        \A r \in 1..Len(call.data) : \A j \in 1..Len(call.data[r]) :
            ret[1][r][j] =
                IF 1 <= j - call.periods /\ j - call.periods <= Len(call.data[r])
                THEN call.data[r][j - call.periods]
                ELSE NaN

\* C9 for every number of periods but zero.
ShiftNonZero == call.periods = 0 \/ C9_ShiftByPeriods

\* --------------------------------------------------------------- RankFactor

\* torch.sort's order of two values: missing sorts as the greatest value.
SortsBefore(a, b) == b = NaN \/ (a # NaN /\ a <= b)

\* The permutations of the positions of a row.
Perms(n) == {f \in [1..n -> 1..n] : \A i, j \in 1..n : f[i] = f[j] => i = j}

\* The `indices` torch.sort may return for a row: a permutation that puts
\* the row in order; equal values come in any order.
SortIndices(row, descending) ==
    {f \in Perms(Len(row)) :
        \A i \in 1..(Len(row) - 1) :
            IF descending THEN SortsBefore(row[f[i + 1]], row[f[i]])
            ELSE SortsBefore(row[f[i]], row[f[i + 1]])}

\* The indices that sort a permutation of positions: its inverse.
ArgSort(f) == [j \in DOMAIN f |-> CHOOSE i \in DOMAIN f : f[i] = j]

\* RankFactor.compute on one date row, for the indices the first sort gave.
RankCompute(data, ascending, indices) ==
    LET position == ArgSort(indices)
    IN [j \in 1..Len(data) |-> IF data[j] = NaN THEN NaN ELSE position[j]]

\* The row RankFactor.compute sorts: missing filled with -inf when descending.
Filled(data, ascending) ==
    IF ~ascending
    THEN [j \in 1..Len(data) |-> IF data[j] = NaN THEN NegInf ELSE data[j]]
    ELSE data

\* A date row and the direction to rank it in.
InitRank ==
    /\ NoGraph
    /\ ret = <<>>
    /\ \E n \in 1..MaxLen, a \in BOOLEAN :
         \E row \in Rows(n, Vals \cup {NegInf}) :
            call = [data |-> row, ascending |-> a]

\* The node is computed on its input row.
Rank ==
    /\ ret = <<>>
    /\ \E indices \in SortIndices(Filled(call.data, call.ascending), ~call.ascending) :
          ret' = <<RankCompute(call.data, call.ascending, indices)>>
    /\ UNCHANGED <<graph, heap, drv, call>>

SpecRank == InitRank /\ [][Rank]_vars

\* The positions of a row that are not missing.
Present(row) == {j \in 1..Len(row) : row[j] # NaN}

\* C10: in a row whose present values are pairwise distinct, a present value
\* is ranked 1 + the number of present values below it (above it when
\* descending), so the ranks are 1..n, and missing stays missing.
C10_RankDense ==
    (ret # <<>> /\ \A i, j \in Present(call.data) :
                      call.data[i] = call.data[j] => i = j) =>
        \A j \in 1..Len(call.data) :
            IF j \in Present(call.data)
            THEN ret[1][j] = 1 + Cardinality({k \in Present(call.data) :
                                    IF call.ascending
                                    THEN call.data[k] < call.data[j]
                                    ELSE call.data[k] > call.data[j]})
            ELSE ret[1][j] = NaN

\* C10 for the rows that hold no -inf.
RankFinite == (\E j \in 1..Len(call.data) : call.data[j] = NegInf) \/ C10_RankDense

\* ----------------------------------------------------------- QuantileFactor

\* The largest number of buckets a quantile node is given.
MaxBins == 3
\* The widest panel (number of asset columns) that is bucketed.
MaxCols == 5
\* The largest number in a panel that is bucketed.
MaxNum == 4

\* The values of a panel that is bucketed.
Nums == {NaN} \cup 1..MaxNum

RECURSIVE Insert(_, _)
\* The sorted row s with value v put in its place (missing sorts last).
Insert(v, s) ==
    IF s = <<>> THEN <<v>>
    ELSE IF SortsBefore(v, Head(s)) THEN <<v>> \o s
    ELSE <<Head(s)>> \o Insert(v, Tail(s))

RECURSIVE SortValues(_)
\* The `values` torch.sort returns for a row, ascending.
SortValues(row) ==
    IF row = <<>> THEN <<>> ELSE Insert(Head(row), SortValues(Tail(row)))

\* Tensor.long() of the quotient a / b: truncated towards zero.
TruncDiv(a, b) == IF a >= 0 THEN a \div b ELSE 0 - ((0 - a) \div b)

\* x[i] with Python's index i: from 0, a negative index counts from the end.
Index(x, i) == IF i < 0 THEN x[Len(x) + i + 1] ELSE x[i + 1]

\* Lines 512-523 for one row and the k-th quantile q = k / bins: the bucket
\* boundary b[k], multiplied by bins to stay in the integers; <<>> is nan
\* (an operation on nan gives nan).
Boundary(x, act_size, bins, k) ==
    LET q_index == TruncDiv(k * (act_size - 1), bins)
        q_weight == k % bins
        q_next == IF k = bins THEN act_size - 1 ELSE q_index + 1
        b_start == Index(x, q_index)
        x_next == Index(x, q_next)
    IN IF b_start = NaN \/ x_next = NaN THEN <<>>
       ELSE <<bins * b_start + (x_next - b_start) * q_weight>>

\* Line 524: b[0] -= 1.
Boundaries(x, act_size, bins) ==
    [i \in 1..(bins + 1) |->
        LET b == Boundary(x, act_size, bins, i - 1)
        IN IF i = 1 /\ b # <<>> THEN <<b[1] - bins>> ELSE b]

\* (data > start) & (data <= end), the boundaries being multiplied by bins.
InTile(v, start, end, bins) ==
    /\ v # NaN /\ start # <<>> /\ end # <<>>
    /\ bins * v > start[1]
    /\ bins * v <= end[1]

\* Lines 527-529 for one entry: the label the last matching tile wrote.
TileOf(v, b, bins) ==
    LET tiles == {t \in 1..bins : InTile(v, b[t], b[t + 1], bins)}
    IN IF tiles = {} THEN NaN ELSE MaxOf(tiles)

\* A bucketing whose lowest boundary is the smallest value itself.
QuantileRowClosedBelow(row, bins) ==
    LET x == SortValues(row)
        act_size == Len(row) - Cardinality({j \in 1..Len(row) : row[j] = NaN})
        b == [i \in 1..(bins + 1) |-> Boundary(x, act_size, bins, i - 1)]
    IN [j \in 1..Len(row) |-> TileOf(row[j], b, bins)]

\* Lines 510-530 of QuantileFactor.compute for one date row.
QuantileRow(row, bins) ==
    LET x == SortValues(row)
        act_size == Len(row) - Cardinality({j \in 1..Len(row) : row[j] = NaN})
        b == Boundaries(x, act_size, bins)
    IN [j \in 1..Len(row) |-> TileOf(row[j], b, bins)]

\* QuantileFactor.compute
QuantileCompute(data, bins) ==
    IF Len(data[1]) = 1
    THEN [r \in 1..Len(data) |-> <<0>>]
    ELSE [r \in 1..Len(data) |-> QuantileRow(data[r], bins)]

\* A panel of one date row of up to MaxCols assets, or of two date rows, and
\* the number of buckets.
InitQuantile ==
    /\ NoGraph
    /\ ret = <<>>
    /\ \E bins \in 1..MaxBins :
         \/ \E n \in 1..MaxCols : \E row \in Rows(n, Nums) :
               call = [data |-> <<row>>, bins |-> bins]
         \/ \E n \in 1..MaxLen : \E r1 \in Rows(n, Vals), r2 \in Rows(n, Vals) :
               call = [data |-> <<r1, r2>>, bins |-> bins]

\* The node is computed on its input panel.
Quantile ==
    /\ ret = <<>>
    /\ ret' = <<QuantileCompute(call.data, call.bins)>>
    /\ UNCHANGED <<graph, heap, drv, call>>

SpecQuantile == InitQuantile /\ [][Quantile]_vars

\* C11: in a panel of any width, the one active value of a date row that has
\* exactly one gets bucket 0 (not missing), whatever the number of buckets.
C11_SingleActiveIsZero ==
    ret # <<>> =>
        \A r \in 1..Len(call.data) :
            Cardinality(Present(call.data[r])) = 1 =>
                \A j \in Present(call.data[r]) : ret[1][r][j] = 0

\* C11 for the panels of one asset column.
SingleColumnIsZero == Len(call.data[1]) # 1 \/ C11_SingleActiveIsZero

\* In a panel of two or more columns such a row comes out missing.
SingleActiveIsMissing ==
    (ret # <<>> /\ Len(call.data[1]) > 1) =>
        \A r \in 1..Len(call.data) :
            Cardinality(Present(call.data[r])) = 1 =>
                \A j \in 1..Len(call.data[r]) : ret[1][r][j] = NaN

MaxChan == 3

\* The class attributes of MultiRetSelector: those of CustomFactor.
SelectorClass ==
    [name |-> "MultiRetSelector", win |-> 1, min_win |-> <<>>, groupby |-> "asset"]

\* BaseFactor.__getitem__: MultiRetSelector(inputs=(self, key)).
getitem(key) ==
    LET factor == CustomInit(SelectorClass, <<>>, "tuple")
    IN IF factor.err # "none" THEN factor
       ELSE [factor EXCEPT !.attr = <<"inputs", "self", key>>]

\* The values of the tensors a selection is computed on: missing and one
\* number tell the channels apart.
ChanVals == {NaN, 1}

\* The tensors a node returns: `dims` axes; with two axes at[r][c] is a
\* value, with three it is the sequence of the channels.
Tensors2 ==
    {[dims |-> 2, at |-> <<row>>] : row \in UNION {Rows(n, ChanVals) : n \in 1..2}}
Tensors3 ==
    UNION {{[dims |-> 3, at |-> <<row>>] : row \in Rows(n, Rows(c, ChanVals))} :
              <<n, c>> \in (1..2) \X (1..MaxChan)}

\* data.shape[2]
Channels(data) == Len(data.at[1][1])

\* What a transformation gives: a tensor, or the error it raised.
Failed(e, msg) == [err |-> e, msg |-> msg, out |-> <<>>]
Returned(out) == [err |-> "none", msg |-> <<>>, out |-> out]

\* data[:, :, key]
Channel(data, key) ==
    [r \in 1..Len(data.at) |-> [c \in 1..Len(data.at[r]) |-> Index(data.at[r][c], key)]]

\* A selection that does not check the key against the number of channels.
SelectUnchecked(data, key) ==
    IF data.dims < 3
    THEN Failed("KeyError", <<"This factor has only one return value, cannot slice.">>)
    ELSE IF key >= Channels(data) \/ key < 0 - Channels(data)
    THEN Failed("IndexError", <<>>)
    ELSE Returned(Channel(data, key))

\* MultiRetSelector.compute
SelectCompute(data, key) ==
    IF data.dims < 3
    THEN Failed("KeyError", <<"This factor has only one return value, cannot slice.">>)
    ELSE IF Channels(data) <= key
    THEN Failed("KeyError", <<"OutOfBounds", Channels(data), key>>)
    ELSE IF key < 0 - Channels(data)
    THEN Failed("IndexError", <<>>)
    ELSE Returned(Channel(data, key))

\* The caller indexes a node: node[key].
GetItem ==
    /\ call = <<>>
    /\ \E key \in (0 - 1)..(MaxChan + 1) :
          /\ call' = <<"__getitem__", key>>
          /\ ret' = getitem(key)
    /\ UNCHANGED <<graph, heap, drv>>

\* The selection node is computed on the value of its upstream node.
Select ==
    /\ call # <<>> /\ call[1] = "__getitem__"
    /\ \E data \in Tensors2 \cup Tensors3 :
          /\ call' = <<"compute", call[2], data>>
          /\ ret' = SelectCompute(data, call[2])
    /\ UNCHANGED <<graph, heap, drv>>

SpecSelect == InitPure /\ [][GetItem \/ Select]_vars

\* C13: indexing builds a selection node over (node, k) and computes nothing;
\* computed on a value with c channels it returns channel k when 0 <= k < c,
\* and raises a KeyError when the value has no third axis or when k >= c, the
\* latter with c (and k) in its message.
C13_SelectChannel ==
    /\ (call # <<>> /\ call[1] = "__getitem__") =>
          /\ ret.err = "none"
          /\ ret.cls = "MultiRetSelector"
          /\ ret.attr = <<"inputs", "self", call[2]>>
          /\ heap = Heap0(FALSE)
    /\ (call # <<>> /\ call[1] = "compute") =>
          LET k == call[2]
              data == call[3]
          IN /\ data.dims < 3 => ret.err = "KeyError" /\ ret.out = <<>>
             /\ (data.dims = 3 /\ k >= Channels(data)) =>
                   /\ ret.err = "KeyError"
                   /\ ret.msg = <<"OutOfBounds", Channels(data), k>>
                   /\ ret.out = <<>>
             /\ (data.dims = 3 /\ 0 <= k /\ k < Channels(data)) =>
                   /\ ret.err = "none"
                   /\ \A r \in 1..Len(data.at) : \A c \in 1..Len(data.at[r]) :
                         ret.out[r][c] = data.at[r][c][k + 1]

\* Channel 2 (the third) was asked of a value that has two channels.
C13_Witness ==
    /\ call # <<>> /\ call[1] = "compute"
    /\ call[2] = 2
    /\ call[3].dims = 3
    /\ Channels(call[3]) = 2
    /\ ret = Failed("KeyError", <<"OutOfBounds", 2, 2>>)

\* ------------------------------------------- a graph reused over several passes

\* The number of passes the engine runs on the same graph.
MaxPasses == 2

\* Node n is as constructed, or as a clean_up_ leaves it (the engine apart).
Reset(h, n) ==
    h.ref_count[n] = 0 /\ h.cache[n] = None /\ h.cache_stream[n] = None

\* The engine starts another pass on the same nodes, whatever the pass before
\* left in them: no clean_up_ is called in between unless it was called
\* before.  The records of the pass before (the log, the error, the node that
\* failed) are dropped; the fields of the nodes and the device stay.
NewPass ==
    /\ drv.pass < MaxPasses
    /\ drv.phase # "idle"
    /\ drv' = [drv EXCEPT !.phase = "idle", !.pre = <<>>, !.comp = <<>>,
                          !.pass = @ + 1, !.prev = drv.phase,
                          !.clean = \A n \in Nodes : Reset(heap, n)]
    /\ heap' = [heap EXCEPT !.log = <<>>, !.registered = <<>>, !.err = "none",
                            !.out = None, !.args = <<>>, !.fail = None]
    /\ UNCHANGED <<graph, pure>>

\* The engine runs passes of one root with streams, requesting the root once
\* it pre-computed it; in the first pass the transformation of one node may
\* raise.
InitReuse ==
    /\ InitGraph
    /\ drv = [phase |-> "idle", pre |-> <<>>, comp |-> <<>>, conc |-> TRUE,
              paired |-> TRUE, roots |-> 1, pass |-> 1, prev |-> "none",
              clean |-> TRUE]
    /\ \E f \in {None} \cup Nodes : heap = [Heap0(TRUE) EXCEPT !.fail = f]
    /\ call = <<>>
    /\ ret = <<>>

NextReuse ==
    \/ \E r \in Nodes : PreComputeRoot(r)
    \/ \E r \in Nodes : ComputeRoot(r)
    \/ \E r \in Nodes : CleanUp(r)
    \/ NewPass

SpecReuse == InitReuse /\ [][NextReuse]_vars

\* The pass-scoped fields of node n in heap h.
NodeFields(h, n) == <<h.ref_count[n], h.cache[n], h.cache_stream[n], h.engine[n]>>

\* What the heap holds besides the fields of the nodes.
HeapRest(h) ==
    <<h.registered, h.log, h.nval, h.queue, h.done, h.written, h.race, h.err,
      h.out, h.args, h.fail>>

\* C14: clean_up_ on a root, from whatever state (after the pre-compute pass,
\* after a compute pass that completed or that was aborted, in a first or a
\* later pass), leaves every node reachable from the root through inputs and
\* masks with ref_count 0, no cache, no cached stream and no engine, and
\* changes nothing else: not the graph, not the other nodes, not the device.
C14_CleanUpResets ==
    [][(drv'.phase = "cleaned" /\ drv.phase # "cleaned") =>
          \E r \in Nodes :
              /\ \E i \in 1..Len(drv.pre) : drv.pre[i] = r
              /\ \A n \in ReachFrom(r) :
                    NodeFields(heap', n) = <<0, None, None, FALSE>>
              /\ \A n \in Nodes \ ReachFrom(r) :
                    NodeFields(heap', n) = NodeFields(heap, n)
              /\ HeapRest(heap') = HeapRest(heap)
              /\ UNCHANGED <<graph, pure>>]_vars

\* A pass aborted while a node demanded twice had been computed once (its
\* result cached, its stream kept), and the root was cleaned up afterwards.
C14_Witness ==
    /\ drv.phase = "cleaned"
    /\ heap.err = "ComputeError"
    /\ \E n \in Nodes :
          /\ Cardinality(Entries("pre", n)) = 2
          /\ Cardinality(Entries("enter", n)) = 1
          /\ Runs(n) = 1
          /\ NodeFields(heap, n) = <<0, None, None, FALSE>>
    /\ \E n \in Nodes : mask[n] # None

\* ------------------------------------------------ the pre-compute pass's demand

RECURSIVE SumUses(_, _)
\* How many times node n is an input or the mask of the nodes in S.
SumUses(S, n) ==
    IF S = {} THEN 0
    ELSE LET m == CHOOSE m \in S : TRUE
         IN Uses(m, n) + SumUses(S \ {m}, n)

\* The demand for node n in a pass from the roots rs: once per occurrence as
\* an input or as the mask of a reachable node, once per time it is a root.
Demand(rs, n) == CountIn(rs, n) + SumUses(Reach(rs), n)

\* The visits of pre_compute_ in the order they were made.
PreVisits == SelectSeq(heap.log, LAMBDA en : en[1] = "pre")

\* C15: after a pre-compute pass that found every ref_count at 0, a reachable
\* node's ref_count is its demand (its occurrences as an input or a mask of
\* reachable nodes plus the times it was a root), it was visited that many
\* times, it went down into its inputs and mask once, on its first visit
\* only, and every visit registered the node's groupby key with the engine;
\* the nodes out of reach were not touched.
C15_PreComputeDemand ==
    (drv.phase = "pre" /\ drv.pass = 1) =>
        /\ \A n \in Reach(drv.pre) :
              /\ heap.ref_count[n] = Demand(drv.pre, n)
              /\ Cardinality(Entries("pre", n)) = Demand(drv.pre, n)
              /\ Cardinality(Entries("down", n)) = 1
              /\ \A i \in Entries("down", n) :
                    /\ heap.log[i - 1] = <<"pre", n, None>>
                    /\ \A j \in Entries("pre", n) : j >= i - 1
              /\ heap.engine[n]
              /\ heap.cache[n] = None /\ heap.cache_stream[n] = None
        /\ \A n \in Nodes \ Reach(drv.pre) :
              /\ NodeFields(heap, n) = <<0, None, None, FALSE>>
              /\ Entries("pre", n) = {} /\ Entries("down", n) = {}
        /\ heap.registered = [i \in 1..Len(PreVisits) |-> groupby[PreVisits[i][2]]]

\* A node that is a root, an input of one node and the mask of another: three
\* units of demand, one descent.
C15_Witness ==
    /\ drv.phase = "pre" /\ drv.pass = 1
    /\ \E n \in Nodes :
          /\ heap.ref_count[n] = 3
          /\ CountIn(drv.pre, n) = 1
          /\ \E k \in Nodes : mask[k] = n
          /\ \E k \in Nodes : CountIn(inputs[k], n) = 1
          /\ inputs[n] # <<>>
          /\ Cardinality(Entries("down", n)) = 1

\* ---------------------------------------------------- passes after passes

\* The pre-compute pass of the roots is complete.
PreComplete == drv.phase = "pre" /\ Len(drv.pre) = drv.roots

\* The compute pass that followed it is complete, without an error.
ComputeComplete ==
    /\ drv.phase = "compute"
    /\ Len(drv.comp) = drv.roots
    /\ heap.err = "none"

\* After a complete pre-compute pass every reachable node has the demand of
\* this pass for ref_count and no cache; after the compute pass that follows
\* every reachable transformation ran once; and no pass in which no
\* transformation raises ends in an error.
PassIsFresh ==
    /\ PreComplete =>
          \A n \in Reach(drv.pre) :
              /\ heap.ref_count[n] = Demand(drv.pre, n)
              /\ heap.cache[n] = None
              /\ heap.cache_stream[n] = None
    /\ ComputeComplete => \A n \in Reach(drv.pre) : Runs(n) = 1
    /\ heap.fail = None => heap.err = "none"

\* C16: every pre-compute pass resets the pass-scoped state, whatever the
\* pass before left behind (a pass that stopped mid-way, or a compute pass
\* that was aborted by an error, with no clean_up_ after it): the ref_counts
\* are the demand of this pass alone, the caches are empty, and the compute
\* pass that follows runs every transformation once without a
\* reference-count error.
C16_PreComputeResets == PassIsFresh

\* C16 for the passes that found every node reset: the first pass, a pass
\* after a pass that completed, a pass after a clean_up_ that reached every
\* node the pass before had touched.
FreshFromReset == ~drv.clean \/ PassIsFresh

\* What C16 says does not happen: the pass before was aborted by an error,
\* nothing was cleaned, and the new pre-compute pass left a ref_count that is
\* not the demand of this pass.
StaleAfterAbort ==
    /\ drv.prev = "aborted"
    /\ PreComplete
    /\ \E n \in Reach(drv.pre) : heap.ref_count[n] > Demand(drv.pre, n)

\* The same, seen from the compute pass: it completes, but a node was left
\* with a positive ref_count and a cache nobody will read.
LeakAfterAbort ==
    /\ drv.prev = "aborted"
    /\ ComputeComplete
    /\ \E n \in Reach(drv.pre) : heap.ref_count[n] > 0 /\ heap.cache[n] # None

\* ------------------------------------------------------- the cache's lifetime

\* The tensor the transformation of node n produced in this pass.
RunValue(n) == heap.log[CHOOSE i \in Entries("run", n) : TRUE][3]

\* The streams on which tensor v is written.
StreamsOf(v) == {tq[1] : tq \in Producer(v)}

\* C17: in a compute pass with streams, a node that ran holds its result in
\* its cache exactly while its ref_count is still positive, so a node whose
\* demand is 1 never holds one and is never read from the cache; a cache is
\* never held at ref_count 0 or below, every read from the cache hands over
\* the result the node produced, the read that brings ref_count to 0 leaves
\* neither cache nor stream handle, and the stream handle kept beside a cache
\* is the stream on which the node's transformation ran.
C17_CacheLifetime ==
    \A n \in Nodes :
        /\ heap.ref_count[n] = Demand(drv.pre, n) - Cardinality(Entries("enter", n))
        /\ Runs(n) = 1 => (heap.cache[n] # None <=> heap.ref_count[n] > 0)
        /\ Runs(n) = 0 => heap.cache[n] = None /\ Entries("hit", n) = {}
        /\ Demand(drv.pre, n) <= 1 => heap.cache[n] = None /\ Entries("hit", n) = {}
        /\ heap.cache[n] # None =>
              /\ heap.ref_count[n] > 0
              /\ heap.cache[n] = RunValue(n)
              /\ heap.cache_stream[n] # None
              /\ StreamsOf(heap.cache[n]) = {heap.cache_stream[n]}
        /\ \A i \in Entries("hit", n) : heap.log[i][3] = RunValue(n)
        /\ heap.ref_count[n] = 0 =>
              heap.cache[n] = None /\ heap.cache_stream[n] = None

\* A node demanded three times was read from its cache once and still holds
\* its result for the last consumer.
C17_Witness ==
    /\ drv.phase = "compute"
    /\ \E n \in Nodes :
          /\ Demand(drv.pre, n) = 3
          /\ Cardinality(Entries("hit", n)) = 1
          /\ heap.ref_count[n] = 1
          /\ heap.cache[n] # None
          /\ heap.cache_stream[n] # None
    /\ \E n \in Nodes : Demand(drv.pre, n) = 1 /\ Runs(n) = 1

\* C18: a pass that found every node reset and whose pre-compute and compute
\* both completed without an error leaves every node reset again (ref_count
\* 0, no cache, no stream handle) with no clean_up_ called, each reachable
\* transformation having run once; so the pass after it finds every node
\* reset, and ends in the same way.
C18_PassRestoresReset ==
    /\ []((drv.clean /\ ComputeComplete) =>
            /\ \A n \in Nodes : Reset(heap, n)
            /\ \A n \in Reach(drv.pre) : Runs(n) = 1 /\ heap.engine[n]
            /\ \A n \in Nodes \ Reach(drv.pre) : Runs(n) = 0)
    /\ [][(drv.clean /\ ComputeComplete /\ drv'.pass = drv.pass + 1) =>
            drv'.clean]_vars

\* A second pass over a graph with a shared node completed after a first
\* pass that had completed, no clean_up_ in between.
C18_Witness ==
    /\ drv.pass = 2
    /\ drv.prev = "compute"
    /\ drv.clean
    /\ ComputeComplete
    /\ \E n \in Nodes : Entries("hit", n) # {} /\ Runs(n) = 1 /\ Reset(heap, n)
    /\ Len(heap.queue) > 4

\* ------------------------------------------------- which stream waits for which

\* The nodes whose transformation was put on a stream in this pass.
Computed == {n \in Nodes : Runs(n) = 1}

\* The stream that was made for node n when it was computed.
NodeStream(n) == CHOOSE s \in StreamsOf(RunValue(n)) : TRUE

\* The waits on stream s for an event of stream t.
Waits(s, t) ==
    {p \in Ops(s) : heap.queue[s][p].kind = "wait" /\ heap.queue[s][p].evs = t}

\* The waits on stream s.
AllWaits(s) == {p \in Ops(s) : heap.queue[s][p].kind = "wait"}

\* The edges compute_ follows from node n: its inputs that are nodes, and
\* its mask.
Edges(n) ==
    Cardinality({i \in 1..Len(inputs[n]) : IsFactor(inputs[n][i])})
        + (IF mask[n] # None THEN 1 ELSE 0)

\* The streams made for the nodes in S.
StreamsFor(S) == {NodeStream(n) : n \in S \cap Computed}

\* C19: with streams, every node that is computed has a stream of its own,
\* made for it; the waits put on a node's stream are those for the streams of
\* its inputs and its mask, one per edge (a cache hit included: the wait is
\* for the stream of the node that was hit), and the waits on the engine's
\* stream are for the roots it requested; so no stream of the subtree of one
\* input waits for a stream of the subtree of an input that shares no node
\* with it.
C19_OnlyEdgeWaits ==
    /\ \A n \in Computed :
          /\ Cardinality(StreamsOf(RunValue(n))) = 1
          /\ NodeStream(n) # RootStream
          /\ \A m \in Computed : NodeStream(m) = NodeStream(n) => m = n
          /\ \A p \in Computed :
                Cardinality(Waits(NodeStream(n), NodeStream(p))) = Uses(n, p)
          /\ \A p \in Nodes \ Computed : Uses(n, p) = 0
          /\ Cardinality(AllWaits(NodeStream(n))) = Edges(n)
    /\ Len(heap.queue) = 1 + Cardinality(Computed)
    /\ \A p \in Computed :
          Cardinality(Waits(RootStream, NodeStream(p))) = CountIn(drv.comp, p)
    /\ Cardinality(AllWaits(RootStream)) = Len(drv.comp)
    /\ \A n \in Computed : \A i, j \in 1..Len(inputs[n]) :
          LET a == inputs[n][i]
              b == inputs[n][j]
          IN (IsFactor(a) /\ IsFactor(b) /\ ReachFrom(a) \cap ReachFrom(b) = {}) =>
                \A s \in StreamsFor(ReachFrom(a)), t \in StreamsFor(ReachFrom(b)) :
                    Waits(s, t) = {} /\ Waits(t, s) = {}

\* A node with two inputs that share nothing was computed, and the device ran
\* the work of the second input while the work of the first, put on its
\* stream earlier, has not run yet.
C19_Witness ==
    /\ inputs[3] = <<1, 2>> /\ mask[3] = None
    /\ inputs[2] = <<>> /\ mask[2] = None
    /\ drv.comp = <<3>>
    /\ Computed = {1, 2, 3}
    /\ heap.done[NodeStream(2)] = Len(heap.queue[NodeStream(2)])
    /\ heap.done[NodeStream(1)] = 0
    /\ NodeStream(1) < NodeStream(2)

\* ------------------------------------------------ the host and the device apart

\* The engine's calls with streams, the device left aside: what the nodes
\* hold and what was put on the streams between two calls of the engine.
NextHost ==
    \/ \E r \in Nodes : PreComputeRoot(r)
    \/ \E r \in Nodes : ComputeRoot(r)

SpecHost == InitStream /\ [][NextHost]_vars

\* A pass of one root with streams, and the device that runs the streams in
\* any order the waits allow.
InitOverlap ==
    /\ InitGraph
    /\ drv = [phase |-> "idle", pre |-> <<>>, comp |-> <<>>, conc |-> TRUE,
              paired |-> TRUE, roots |-> 1, pass |-> 1, prev |-> "none",
              clean |-> TRUE]
    /\ heap = Heap0(drv.conc)
    /\ call = <<>>
    /\ ret = <<>>

SpecOverlap == InitOverlap /\ [][NextStream]_vars

\* ------------------------------------------------- the order of reformatting

\* C20: a node input reaches the transformation (1) in the layout of the
\* consuming node, converted if and only if the upstream groups by another
\* key, and handed on as it is otherwise; (2) with missing where the mask,
\* brought to the node's layout by the same rule, is false, when there is a
\* mask; (3) in a Rolling view of the node's window with the upstream's
\* adjustments if and only if the window exceeds 1.  The upstream's output,
\* which is what its cache holds, is not changed by this.
C20_FormatOrder ==
    ret # <<>> =>
        \A i \in 1..Len(call.ins) :
            call.ins[i].factor =>
                LET self == call.self
                    up == call.ins[i]
                    got == ret[1].args[i]
                    masked(a, d) ==
                        /\ call.mask_out # <<>>
                        /\ ~At(call.mask_out[1], call.mask.groupby, a, d)
                IN /\ DOMAIN got.data = RowsOf(self.groupby)
                   /\ \A r \in DOMAIN got.data : DOMAIN got.data[r] = ColsOf(self.groupby)
                   /\ (up.groupby = self.groupby /\ call.mask_out = <<>>) =>
                         got.data = up.out
                   /\ call.mask_out = <<>> =>
                         \A a \in Assets, d \in Dates :
                             At(got.data, self.groupby, a, d)
                                 = At(up.out, up.groupby, a, d)
                   /\ \A a \in Assets, d \in Dates :
                         At(got.data, self.groupby, a, d)
                             = IF masked(a, d) THEN NaN
                               ELSE At(up.out, up.groupby, a, d)
                   /\ got.rolling <=> self.win > 1
                   /\ got.rolling =>
                         got.win = self.win /\ got.adjustments = up.adjustments
                   /\ ~got.rolling => got = Plain(got.data)

\* An input grouped by asset reached a node that groups by date, has a mask
\* grouped by asset (false for asset 2 at date 1 only) and a window of 2.
C20_Witness ==
    /\ ret # <<>>
    /\ call.self = [groupby |-> "date", win |-> 2]
    /\ call.mask.groupby = "asset"
    /\ call.mask_out = << [a \in Assets |-> [d \in Dates |-> ~(a = 2 /\ d = 1)]] >>
    /\ Len(call.ins) = 1
    /\ call.ins[1].groupby = "asset"
    /\ call.ins[1].out = [a \in Assets |-> [d \in Dates |-> a]]
    /\ ret[1].args[1] =
          Rolling([d \in Dates |-> [a \in Assets |->
                      IF a = 2 /\ d = 1 THEN NaN ELSE a]], 2, "None")

\* ------------------------------------------------ the steps of one compute_

\* The smallest of a non-empty set of integers.
MinOf(S) == CHOOSE x \in S : \A y \in S : x <= y

\* Where the log has the first request of node n: the one that finds no cache.
MissAt(n) == MinOf(Entries("enter", n))

\* Where the log has the transformation of node n.
RunAt(n) == CHOOSE i \in Entries("run", n) : TRUE

\* Where a compute_ of node up returned a tensor: computed, or from the cache.
Returns(up) == Entries("run", up) \cup Entries("hit", up)

\* Where the compute_ of node up requested right after position p returned.
ReturnAfter(up, p) == MinOf({j \in Returns(up) : j > p})

\* The tensors node n's transformation was called with.
ArgsOf(n) == heap.log[RunAt(n) - 1][3]

\* Tensor v was made on stream s by work that read the tensors in `reads`.
MadeFrom(v, s, reads) ==
    \E p \in Ops(s) :
        /\ heap.queue[s][p].kind = "work"
        /\ heap.queue[s][p].out = v
        /\ heap.queue[s][p].reads = reads

RECURSIVE InputSteps(_, _, _)
\* From position p of the log on, the inputs of node n from the i-th on are
\* handled one after the other: a constant is passed on; a node is requested,
\* and reformatted as soon as its compute_ has returned; the transformation
\* is called once the last input is done.
InputSteps(n, i, p) ==
    IF i > Len(inputs[n])
    THEN /\ Len(heap.log) >= p + 2
         /\ heap.log[p + 1][1] = "args" /\ heap.log[p + 1][2] = n
         /\ heap.log[p + 2][1] = "run" /\ heap.log[p + 2][2] = n
    ELSE IF ~IsFactor(inputs[n][i])
    THEN /\ Len(heap.log) >= p + 1
         /\ heap.log[p + 1] = <<"const", n, i>>
         /\ InputSteps(n, i + 1, p + 1)
    ELSE LET up == inputs[n][i]
         IN /\ Len(heap.log) >= p + 1
            /\ heap.log[p + 1] = <<"enter", up, None>>
            /\ {j \in Returns(up) : j > p} # {}
            /\ LET q == ReturnAfter(up, p)
               IN /\ Len(heap.log) >= q + 1
                  /\ heap.log[q + 1] = <<"fmt", n, up>>
                  /\ InputSteps(n, i + 1, q + 1)

\* C21: in the compute_ that computes node n (no cache), the mask is requested
\* first when there is one, then the inputs in their declared order, each
\* node input reformatted as soon as it is obtained and before the next input
\* is requested, then the transformation runs, once, on the inputs in their
\* declared order, the constants in their places and unchanged; a compute_
\* that finds a cache does none of this.
C21_StepsInOrder ==
    /\ \A n \in Computed :
          /\ IF mask[n] # None
             THEN /\ heap.log[MissAt(n) + 1] = <<"mask", n, mask[n]>>
                  /\ heap.log[MissAt(n) + 2] = <<"enter", mask[n], None>>
                  /\ InputSteps(n, 1, ReturnAfter(mask[n], MissAt(n)))
             ELSE InputSteps(n, 1, MissAt(n))
          /\ Cardinality(Entries("mask", n)) = (IF mask[n] # None THEN 1 ELSE 0)
          /\ Cardinality(Entries("fmt", n)) + Cardinality(Entries("const", n))
                = Len(inputs[n])
          /\ Cardinality(Entries("args", n)) = 1
          /\ Len(ArgsOf(n)) = Len(inputs[n])
          /\ \A i \in 1..Len(inputs[n]) :
                LET up == inputs[n][i]
                IN IF ~IsFactor(up) THEN ArgsOf(n)[i] = Const
                   ELSE IF FormatIsIdentity(n, up) THEN ArgsOf(n)[i] = RunValue(up)
                   ELSE MadeFrom(ArgsOf(n)[i], NodeStream(n),
                                 {RunValue(up)} \cup (IF mask[n] # None
                                                      THEN {RunValue(mask[n])}
                                                      ELSE {}))
          /\ MadeFrom(RunValue(n), NodeStream(n),
                      {ArgsOf(n)[i] : i \in 1..Len(inputs[n])} \ {Const})
    /\ \A n \in Nodes : \A i \in Entries("hit", n) :
          /\ heap.log[i - 1] = <<"enter", n, None>>
          /\ i > RunAt(n)
    /\ \A n \in Nodes \ Computed :
          \A tag \in {"mask", "fmt", "const", "args", "hit"} : Entries(tag, n) = {}

\* A node with a mask, a node input and a constant was computed; its mask was
\* computed before its input, and the input found the mask's node in the
\* cache.
C21_Witness ==
    /\ mask[3] = 1
    /\ inputs[3] = <<2, Const>>
    /\ inputs[2] = <<1>> /\ mask[2] = None
    /\ drv.comp = <<3>>
    /\ Computed = {1, 2, 3}
    /\ RunAt(1) < MissAt(2)
    /\ Entries("hit", 1) # {}
    /\ ArgsOf(3)[2] = Const

====
